---- MODULE Spec2Model ----
(***************************************************************************)
(* patchnotes: an RSS/Atom poller that announces unseen feed entries on    *)
(* per-feed Discord webhooks and keeps a de-duplication record on disk.    *)
(* The model follows src/main.py: one run of main() loads the state file,  *)
(* walks the configured feeds in order, selects, sorts and caps the        *)
(* candidates of each feed, posts a day header and an embed per entry, and *)
(* finally rewrites the state file.                                        *)
(*                                                                         *)
(* src/main.py ends inside the try block of the delivery loop (line 152).  *)
(* What follows a successful post (the append to the seen list, its trim), *)
(* the except branch of a failed post (the loop goes on with the next      *)
(* entry) and the final save_state call are taken from spec.md sections 3, *)
(* 4.5, 4.6, 5 and 7; the definitions that do so are SeenLimit, Trim,     *)
(* Commit, AfterPost, Save, SaveFails and Crash.                           *)
(*                                                                         *)
(* Spec holds the runs of a configured, undisturbed program. SpecFaults    *)
(* adds a missing feeds.json and a failing state write, SpecCrash a kill   *)
(* of the process, SpecDrain keeps the runs in which every fetch and post  *)
(* succeeds, and SpecText applies clean_text to summaries on its own.      *)
(*                                                                         *)
(* A feed name absent from the state mapping reads as the empty list, as   *)
(* state.get(name, []) does.                                               *)
(***************************************************************************)
EXTENDS Integers, Sequences, FiniteSets, TLC

\* ------------------------------------------------------------------ bounds
MaxEntries == 3     \* entries in the source feeds of one world, all feeds together
MaxRuns == 2        \* runs of main() in one behaviour
MaxTime == 3        \* timestamps are 0..MaxTime
DayLen == 2         \* timestamps per UTC calendar day
MaxCap == 2         \* max_new_per_run is drawn from 0..MaxCap
MaxText == 4        \* pieces of text in a summary
MaxLimit == 3       \* the limit of clean_text is drawn from 1..MaxLimit

\* getattr(entry, attr, None): the attribute is absent.
NoTime == -1

\* The seen list keeps its last SeenLimit identifiers (spec.md section 3).
SeenLimit == 100

Times == 0..MaxTime

\* What datetime.now may read: a time before or after those of the entries.
Nows == {0, MaxTime}

\* ------------------------------------------------------- the feed entries
\* feedparser entries, as the optional-field struct the code reads with getattr.
E1 == [id |-> "e1", guid |-> "", link |-> "l1", title |-> "t1",
       published |-> 3, updated |-> 0, created |-> NoTime]
E2 == [id |-> "", guid |-> "e2", link |-> "l2", title |-> "t2",
       published |-> NoTime, updated |-> 0, created |-> 1]
E3 == [id |-> "", guid |-> "", link |-> "l3", title |-> "",
       published |-> NoTime, updated |-> NoTime, created |-> 1]
E4 == [id |-> "e1", guid |-> "g4", link |-> "l4", title |-> "t2",
       published |-> NoTime, updated |-> NoTime, created |-> NoTime]
Catalogue == {E1, E2, E3, E4}

\* ------------------------------------------------------- pure functions
Min(a, b) == IF a < b THEN a ELSE b
Max(a, b) == IF a > b THEN a ELSE b

\* seq[start:] of Python, for any integer start.
PySliceFrom(seq, start) ==
    LET n == Len(seq)
        s == IF start < 0 THEN Max(n + start, 0) ELSE Min(start, n)
    IN  SubSeq(seq, s + 1, n)

\* An identifier that is always made of link and title.
get_entry_id_link(entry) == entry.link \o "::" \o entry.title

\* Lines 29-33.
get_entry_id(entry) ==
    LET entry_id == IF entry.id # "" THEN entry.id ELSE entry.guid
    IN  IF entry_id = "" THEN entry.link \o "::" \o entry.title ELSE entry_id

coerce_dt(entry, now) ==
    IF entry.published # NoTime THEN entry.published
    ELSE IF entry.updated # NoTime THEN entry.updated
    ELSE IF entry.created # NoTime THEN entry.created
    ELSE now

\* strftime("%Y-%m-%d") of a UTC datetime: the calendar day of a timestamp.
day_key(dt) == dt \div DayLen

\* A title_filter_regex: absent, or a pattern that compiles or not, with the
\* titles re.search(pattern, title, flags=re.I) finds a match in.
NoPattern == [present |-> FALSE, valid |-> TRUE, matches |-> {}]
BadPattern == [present |-> TRUE, valid |-> FALSE, matches |-> {}]
PatT1 == [present |-> TRUE, valid |-> TRUE, matches |-> {"t1", "T1"}]
PatUpdate == [present |-> TRUE, valid |-> TRUE, matches |-> {"Update"}]

should_keep(entry_title, pattern) ==
    IF ~pattern.present THEN TRUE
    ELSE IF ~pattern.valid THEN TRUE
    ELSE entry_title \in pattern.matches

\* getattr(entry, "title", "") or "Update"
FilterTitle(entry) == IF entry.title = "" THEN "Update" ELSE entry.title

\* The candidate loop without its test against the seen set.
SelectCandidatesNoSeen(entries, seen, title_filter, now) ==
    LET Cand(i) == [eid |-> get_entry_id(entries[i]), entry |-> entries[i],
                    dt |-> coerce_dt(entries[i], now)]
        Keep(c) == /\ should_keep(FilterTitle(c.entry), title_filter)
                   /\ c.eid # ""
    IN  SelectSeq([i \in 1..Len(entries) |-> Cand(i)], Keep)

\* Lines 119-126: the candidate loop over parsed.entries, in source order.
SelectCandidates(entries, seen, title_filter, now) ==
    LET Cand(i) == [eid |-> get_entry_id(entries[i]), entry |-> entries[i],
                    dt |-> coerce_dt(entries[i], now)]
        Keep(c) == /\ should_keep(FilterTitle(c.entry), title_filter)
                   /\ c.eid # ""
                   /\ c.eid \notin seen
    IN  SelectSeq([i \in 1..Len(entries) |-> Cand(i)], Keep)

\* An insertion that puts a candidate before the ones of its own timestamp.
InsertByDtUnstable(sorted, c) ==
    LET k == Cardinality({i \in 1..Len(sorted) : sorted[i].dt < c.dt})
    IN  SubSeq(sorted, 1, k) \o <<c>> \o SubSeq(sorted, k + 1, Len(sorted))

\* list.sort(key=lambda t: t[2]): ascending by dt, stable.
InsertByDt(sorted, c) ==
    LET k == Cardinality({i \in 1..Len(sorted) : sorted[i].dt <= c.dt})
    IN  SubSeq(sorted, 1, k) \o <<c>> \o SubSeq(sorted, k + 1, Len(sorted))

RECURSIVE SortByDt(_)
SortByDt(seq) ==
    IF seq = <<>> THEN <<>>
    ELSE InsertByDt(SortByDt(SubSeq(seq, 1, Len(seq) - 1)), seq[Len(seq)])

\* A cap that keeps the head of the sorted candidates: candidates[:max_new].
CapHead(candidates, max_new) ==
    IF max_new # 0 /\ Len(candidates) > max_new
    THEN SubSeq(candidates, 1, max_new)
    ELSE candidates

\* A cap that keeps the last candidate only.
CapOne(candidates, max_new) == PySliceFrom(candidates, -1)

\* Lines 130-131: keep the tail of the sorted candidates.
Cap(candidates, max_new) ==
    IF max_new # 0 /\ Len(candidates) > max_new
    THEN PySliceFrom(candidates, -max_new)
    ELSE candidates

\* A trim that keeps the first SeenLimit identifiers.
TrimNewest(ids) == SubSeq(ids, 1, Min(Len(ids), SeenLimit))

\* The seen list after an append: its last SeenLimit identifiers.
Trim(ids) == PySliceFrom(ids, -SeenLimit)

\* ------------------------------------------------------------ clean_text
\* Text is a string; Char(s, i) is its i-th character and From(s, i) what
\* starts there.
Char(s, i) == SubSeq(s, i, i)
From(s, i) == SubSeq(s, i, Len(s))

\* The one-character marker U+2026 that line 52 appends, written as a character
\* no input holds.
Ellipsis == "~"

\* What \s matches and strip() removes.
IsSpace(c) == c \in {" ", "\n", "\t"}

\* re.sub(r"<[^>]+>", " ", s): from left to right, a "<" followed by at least
\* one character other than ">" and then a ">" becomes one space.
RECURSIVE StripTags(_)
StripTags(s) ==
    IF s = "" THEN ""
    ELSE LET closes == {j \in 2..Len(s) : Char(s, j) = ">"}
             j0 == CHOOSE j \in closes : \A k \in closes : j <= k
         IN  IF Char(s, 1) = "<" /\ closes # {} /\ j0 >= 3
             THEN " " \o StripTags(From(s, j0 + 1))
             ELSE Char(s, 1) \o StripTags(From(s, 2))

\* html.unescape(s), for the one entity the inputs hold: "&amp;" becomes "&",
\* in one pass.
RECURSIVE Unescape(_)
Unescape(s) ==
    IF s = "" THEN ""
    ELSE IF Len(s) >= 5 /\ SubSeq(s, 1, 5) = "&amp;"
         THEN "&" \o Unescape(From(s, 6))
         ELSE Char(s, 1) \o Unescape(From(s, 2))

\* str.lstrip() and str.rstrip().
RECURSIVE LStrip(_)
LStrip(s) == IF s # "" /\ IsSpace(Char(s, 1)) THEN LStrip(From(s, 2)) ELSE s

RECURSIVE RStrip(_)
RStrip(s) ==
    IF s # "" /\ IsSpace(Char(s, Len(s))) THEN RStrip(SubSeq(s, 1, Len(s) - 1)) ELSE s

\* re.sub(r"\s+", " ", s): every run of whitespace becomes one space.
RECURSIVE Collapse(_)
Collapse(s) ==
    IF s = "" THEN ""
    ELSE IF IsSpace(Char(s, 1))
         THEN " " \o Collapse(LStrip(s))
         ELSE Char(s, 1) \o Collapse(From(s, 2))

\* Lines 46-50: tags stripped, entities decoded, whitespace collapsed, the ends
\* stripped.
Sanitize(s) == RStrip(LStrip(Collapse(Unescape(StripTags(s)))))

\* A clean_text that cuts without stripping: s[: limit - 1] + marker.
clean_text_cut(s, limit) ==
    IF s = "" THEN ""
    ELSE LET t == Sanitize(s)
         IN  IF Len(t) > limit THEN SubSeq(t, 1, limit - 1) \o Ellipsis ELSE t

\* Lines 43-53.
clean_text(s, limit) ==
    IF s = "" THEN ""
    ELSE LET t == Sanitize(s)
         IN  IF Len(t) > limit THEN RStrip(SubSeq(t, 1, limit - 1)) \o Ellipsis ELSE t

\* ------------------------------------------------------ what is sent
\* A JSON null, and a value where a null may stand.
None == {}
Some(v) == {v}

\* s[:n] of Python, for n >= 0.
PyPrefix(s, n) == SubSeq(s, 1, Min(Len(s), n))

\* str.upper() and str.title() of the feed names.
Upper(name) == IF name = "a" THEN "A" ELSE IF name = "b" THEN "B" ELSE name
TitleCase(name) == Upper(name)

TitleLimit == 256
DescriptionLimit == 3500
SummaryLimit == 900

\* feed.get("color", 0x5865F2)
DefaultColor == 5793266

\* Lines 55-58: the JSON body of a day header (the calendar emoji and the dash
\* of the source are written in ASCII).
post_header_for_date(d, feed_name) ==
    [content |-> "**" \o ToString(day_key(d)) \o " - " \o TitleCase(feed_name)
                 \o " patch notes**"]

\* Lines 62-77: the JSON body of an entry post; main() passes no thumbnail.
post_to_discord(title, url, description, color, ts, feed_name) ==
    LET embed == [title |-> IF title # "" THEN PyPrefix(title, TitleLimit) ELSE "Update",
                  url |-> IF url # "" THEN Some(url) ELSE None,
                  description |-> IF description # ""
                                  THEN Some(PyPrefix(description, DescriptionLimit))
                                  ELSE None,
                  color |-> color,
                  timestamp |-> ts,
                  footer |-> [text |-> Upper(feed_name)]]
    IN  [embeds |-> <<embed>>]

\* Line 146: getattr(entry, "summary", "") or getattr(entry, "description", "");
\* the entries of the catalogue carry neither attribute.
Summary(entry) == ""

\* ------------------------------------------------------------------ state
VARIABLES
    feeds,         \* feeds.json: the configured feeds, in order
    env,           \* os.environ: webhook secret name -> URL ("" when unset or empty)
    source,        \* what feedparser.parse returns for each feed: its entries
    disk,          \* state.json: whether it reads as JSON, and the mapping it holds
    state,         \* the in-memory state of the run
    run,           \* the number of the run
    pc,            \* where main() is: "feed", "deliver", or one of Stopped
    fi,            \* index of the feed being processed
    batch,         \* the sorted and capped candidates of the current feed
    ci,            \* index of the next batch entry to post
    posted_dates,  \* day keys that already got a header in this feed
    loaded,        \* the state as load_state returned it in this run
    work,          \* per feed, this run: the sorted candidates and the batch
    log,           \* per feed, this run: the network calls, in order
    cfg_exists,    \* whether feeds.json exists
    writes,        \* how often this run has written the state file
    text,          \* a summary handed to clean_text, and what came back
    redo           \* per feed: what the run that was killed last had posted

vars == <<feeds, env, source, disk, state, run, pc, fi, batch, ci, posted_dates,
          loaded, work, log, cfg_exists, writes, text, redo>>

\* The names of the configured feeds, and the keys of the state mapping: "z" is
\* a key left in the state file by a feed that is no longer configured.
Names == {"a", "b"}
Keys == Names \cup {"z"}

Range(f) == {f[i] : i \in DOMAIN f}

\* Identifiers announced by earlier runs, oldest first.
Filler(n) == [i \in 1..n |-> "old" \o ToString(i)]

\* The empty mapping: state.get(name, []) is [] for every feed.
NoState == [n \in Keys |-> <<>>]

\* A load that never reads the file.
load_state_empty(file) == NoState

\* Lines 16-23: the mapping of the state file, or {} when the file is missing or
\* does not parse.
load_state(file) == IF file.readable THEN file.data ELSE NoState

\* A write that leaves an empty mapping in the file.
save_state_empty(st) == [readable |-> TRUE, data |-> NoState]

\* A write that keeps the lists of the configured feeds only.
save_state_configured(st) ==
    [readable |-> TRUE, data |-> [k \in Keys |-> IF k \in Names THEN st[k] ELSE <<>>]]

\* Lines 25-27: the state file rewritten with the whole mapping.
save_state(st) == [readable |-> TRUE, data |-> st]

EmptyWork == [cands |-> <<>>, batch |-> <<>>]

\* One feed of feeds.json.
FeedConfig(name, filter, max_new) ==
    [name |-> name, webhook_secret |-> "HOOK_" \o name,
     title_filter_regex |-> filter, max_new_per_run |-> max_new]

Filters == {NoPattern, PatT1}

\* Sequences of distinct catalogue entries, at most n long.
RECURSIVE Contents(_)
Contents(n) ==
    IF n = 0 THEN {<<>>}
    ELSE LET shorter == Contents(n - 1)
         IN  shorter \cup {Append(s, e) : s \in shorter, e \in Catalogue}

Distinct(s) == \A i, j \in 1..Len(s) : i # j => s[i] # s[j]

\* The source feeds of one world: feed "a" holds up to MaxEntries entries, feed
\* "b" what is left of them, at most one.
Worlds ==
    {src \in [Names -> {s \in Contents(MaxEntries) : Distinct(s)}] :
        /\ Len(src["a"]) + Len(src["b"]) <= MaxEntries
        /\ Len(src["b"]) <= 1
        /\ src["b"] \in {<<>>, <<E2>>}}

\* feed.get("max_new_per_run", 10)
DefaultMaxNew == 10

\* A state file written by earlier runs: SeenLimit - 1 identifiers per
\* configured feed, one under the key of a feed that is no longer configured.
OldState == [n \in Keys |-> IF n \in Names THEN Filler(SeenLimit - 1) ELSE <<"z1">>]

\* The run before this one was not killed, or had posted nothing.
NoRedo == [n \in Names |-> [ids |-> {}, nows |-> {}]]

\* No summary is being cleaned.
NoText == [s |-> "", limit |-> 0, out |-> "", done |-> FALSE]

Init ==
    /\ \E fa \in Filters, ma \in 0..MaxCap :
           feeds = <<FeedConfig("a", fa, ma), FeedConfig("b", NoPattern, DefaultMaxNew)>>
    /\ env \in [{"HOOK_a", "HOOK_b"} -> {"", "https://hook"}]
    /\ source \in Worlds
    /\ disk \in {[readable |-> FALSE, data |-> NoState],
                 [readable |-> TRUE, data |-> OldState]}
    /\ state = NoState
    /\ run = 0
    /\ pc = "idle"
    /\ fi = 1
    /\ batch = <<>>
    /\ ci = 1
    /\ posted_dates = {}
    /\ loaded = NoState
    /\ work = [n \in Names |-> EmptyWork]
    /\ log = [n \in Names |-> <<>>]
    /\ cfg_exists = TRUE
    /\ writes = 0
    /\ text = NoText
    /\ redo = NoRedo

\* --------------------------------------------------------------- actions
Event(k, eid, dt, ok) == [k |-> k, eid |-> eid, dt |-> dt, ok |-> ok]

\* Where main() is not running: before the first run, after a run that ended
\* with the state written ("done"), with SystemExit for a missing feeds.json
\* ("aborted"), with an exception of the state write ("failed"), or after the
\* process was killed ("crashed").
Stopped == {"idle", "done", "aborted", "failed", "crashed"}

\* Lines 89-95: main() starts, reads feeds.json and loads the state.
Start ==
    /\ pc \in Stopped
    /\ cfg_exists
    /\ run < MaxRuns
    /\ run' = run + 1
    /\ state' = load_state(disk)
    /\ loaded' = load_state(disk)
    /\ pc' = "feed"
    /\ fi' = 1
    /\ batch' = <<>>
    /\ ci' = 1
    /\ posted_dates' = {}
    /\ work' = [n \in Names |-> EmptyWork]
    /\ log' = [n \in Names |-> <<>>]
    /\ writes' = 0
    /\ redo' = (IF pc = "crashed" THEN redo ELSE NoRedo)
    /\ UNCHANGED <<feeds, env, source, disk, cfg_exists, text>>

\* The feed main() is at, and whether feed number i was left behind in this run.
Feed == feeds[fi]
Finished(i) == pc = "done" \/ (pc \in {"feed", "deliver"} /\ fi > i)

\* No test of the resolved URL.
ResolvedAlways(feed) == TRUE

\* Lines 101 and 106: os.environ.get(webhook_secret_name) is a non-empty URL.
Resolved(feed) == env[feed.webhook_secret] # ""

\* A missing secret that ends the run.
SkipFatal ==
    /\ pc = "feed"
    /\ fi <= Len(feeds)
    /\ ~Resolved(Feed)
    /\ pc' = "aborted"
    /\ UNCHANGED <<feeds, env, source, disk, state, run, fi, batch, ci,
                   posted_dates, loaded, work, log, cfg_exists, writes, text, redo>>

\* Lines 106-108: the webhook secret does not resolve; the feed is skipped.
SkipNoWebhook ==
    /\ pc = "feed"
    /\ fi <= Len(feeds)
    /\ ~Resolved(Feed)
    /\ fi' = fi + 1
    /\ UNCHANGED <<feeds, env, source, disk, state, run, pc, batch, ci,
                   posted_dates, loaded, work, log, cfg_exists, writes, text, redo>>

\* No test of parsed.bozo.
ProceedsAlways(bozo) == TRUE

\* Lines 112-114: a feed that feedparser reports a problem with (parsed.bozo) is
\* skipped; any other is processed.
Proceeds(bozo) == ~bozo

\* Lines 110-134: the feed is fetched; unless it is skipped its candidates are
\* selected, sorted and capped. now is what datetime.now returns in coerce_dt
\* during the candidate loop.
Fetch ==
    /\ pc = "feed"
    /\ fi <= Len(feeds)
    /\ Resolved(Feed)
    /\ \E bozo \in BOOLEAN, now \in Nows :
         LET seen == Range(state[Feed.name])
             cands == SortByDt(SelectCandidates(source[Feed.name], seen,
                                                Feed.title_filter_regex, now))
             b == IF Proceeds(bozo) THEN Cap(cands, Feed.max_new_per_run) ELSE <<>>
         IN  /\ log' = [log EXCEPT ![Feed.name] =
                          Append(@, Event("fetch", "", NoTime, ~bozo))]
             /\ work' = [work EXCEPT ![Feed.name] =
                          IF Proceeds(bozo) THEN [cands |-> cands, batch |-> b]
                          ELSE EmptyWork]
             /\ batch' = b
             /\ IF b = <<>>
                THEN pc' = "feed" /\ fi' = fi + 1
                ELSE pc' = "deliver" /\ fi' = fi
    /\ ci' = 1
    /\ posted_dates' = {}
    /\ UNCHANGED <<feeds, env, source, disk, state, run, loaded, cfg_exists,
                   writes, text, redo>>

\* A commit that marks every candidate of the feed as seen.
CommitCandidates(st, name, eid) ==
    [st EXCEPT ![name] =
        Trim(@ \o [i \in 1..Len(work[name].cands) |-> work[name].cands[i].eid])]

\* After a successful post: the identifier is appended to the feed's seen list,
\* which is trimmed to its last SeenLimit identifiers (spec.md section 4.6, step 4).
Commit(st, name, eid) == [st EXCEPT ![name] = Trim(Append(@, eid))]

\* A commit whatever the outcome of the post.
AfterPostAlways(st, name, eid, ok) == Commit(st, name, eid)

\* The seen list after a post: committed on success, left alone on failure.
AfterPost(st, name, eid, ok) == IF ok THEN Commit(st, name, eid) ELSE st

\* Lines 137-142: a header is posted for a day key not yet in posted_dates.
NeedsHeader(dt, dates) == day_key(dt) \notin dates

\* The day key marked only when its header post succeeded.
MarkPostedIfOk(dates, dt, hok) == IF hok THEN dates \cup {day_key(dt)} ELSE dates

\* Line 142: the day key is marked whether or not its header post succeeded.
MarkPosted(dates, dt, hok) == dates \cup {day_key(dt)}

\* An iteration of the delivery loop that gives up the entry when its header
\* post failed.
DeliverUnlessHeaderFails ==
    /\ pc = "deliver"
    /\ ci <= Len(batch)
    /\ LET c == batch[ci]
           hdr == NeedsHeader(c.dt, posted_dates)
       IN  \E hok \in (IF hdr THEN BOOLEAN ELSE {TRUE}), pok \in BOOLEAN :
             /\ log' = [log EXCEPT ![Feed.name] =
                          (IF hdr THEN Append(@, Event("header", "", c.dt, hok)) ELSE @)
                          \o (IF hok THEN <<Event("entry", c.eid, c.dt, pok)>> ELSE <<>>)]
             /\ posted_dates' = (IF hdr THEN MarkPosted(posted_dates, c.dt, hok)
                                  ELSE posted_dates)
             /\ state' = (IF hok THEN AfterPost(state, Feed.name, c.eid, pok) ELSE state)
    /\ ci' = ci + 1
    /\ IF ci = Len(batch)
       THEN pc' = "feed" /\ fi' = fi + 1
       ELSE pc' = "deliver" /\ fi' = fi
    /\ UNCHANGED <<feeds, env, source, disk, run, batch, loaded, work,
                   cfg_exists, writes, text, redo>>

\* An iteration of the delivery loop that rewrites the state file after the
\* post.
DeliverAndSave ==
    /\ pc = "deliver"
    /\ ci <= Len(batch)
    /\ LET c == batch[ci]
           hdr == NeedsHeader(c.dt, posted_dates)
       IN  \E hok \in (IF hdr THEN BOOLEAN ELSE {TRUE}), pok \in BOOLEAN :
             /\ log' = [log EXCEPT ![Feed.name] =
                          (IF hdr THEN Append(@, Event("header", "", c.dt, hok)) ELSE @)
                          \o <<Event("entry", c.eid, c.dt, pok)>>]
             /\ posted_dates' = (IF hdr THEN MarkPosted(posted_dates, c.dt, hok)
                                  ELSE posted_dates)
             /\ state' = AfterPost(state, Feed.name, c.eid, pok)
             /\ disk' = save_state(AfterPost(state, Feed.name, c.eid, pok))
    /\ ci' = ci + 1
    /\ IF ci = Len(batch)
       THEN pc' = "feed" /\ fi' = fi + 1
       ELSE pc' = "deliver" /\ fi' = fi
    /\ UNCHANGED <<feeds, env, source, run, batch, loaded, work,
                   cfg_exists, writes, text, redo>>

\* An iteration of the delivery loop that stays at an entry whose post failed.
DeliverRetry ==
    /\ pc = "deliver"
    /\ ci <= Len(batch)
    /\ LET c == batch[ci]
           hdr == NeedsHeader(c.dt, posted_dates)
       IN  \E hok \in (IF hdr THEN BOOLEAN ELSE {TRUE}), pok \in BOOLEAN :
             /\ log' = [log EXCEPT ![Feed.name] =
                          (IF hdr THEN Append(@, Event("header", "", c.dt, hok)) ELSE @)
                          \o <<Event("entry", c.eid, c.dt, pok)>>]
             /\ posted_dates' = (IF hdr THEN MarkPosted(posted_dates, c.dt, hok)
                                  ELSE posted_dates)
             /\ state' = AfterPost(state, Feed.name, c.eid, pok)
             /\ ci' = (IF pok THEN ci + 1 ELSE ci)
             /\ IF pok /\ ci = Len(batch)
                THEN pc' = "feed" /\ fi' = fi + 1
                ELSE pc' = "deliver" /\ fi' = fi
    /\ UNCHANGED <<feeds, env, source, disk, run, batch, loaded, work,
                   cfg_exists, writes, text, redo>>

\* Lines 135-152: one iteration of the delivery loop. hok and pok are the
\* outcomes of the two requests.post calls (status < 300 and no exception).
Deliver ==
    /\ pc = "deliver"
    /\ ci <= Len(batch)
    /\ LET c == batch[ci]
           hdr == NeedsHeader(c.dt, posted_dates)
       IN  \E hok \in (IF hdr THEN BOOLEAN ELSE {TRUE}), pok \in BOOLEAN :
             /\ log' = [log EXCEPT ![Feed.name] =
                          (IF hdr THEN Append(@, Event("header", "", c.dt, hok)) ELSE @)
                          \o <<Event("entry", c.eid, c.dt, pok)>>]
             /\ posted_dates' = (IF hdr THEN MarkPosted(posted_dates, c.dt, hok)
                                  ELSE posted_dates)
             /\ state' = AfterPost(state, Feed.name, c.eid, pok)
    /\ ci' = ci + 1
    /\ IF ci = Len(batch)
       THEN pc' = "feed" /\ fi' = fi + 1
       ELSE pc' = "deliver" /\ fi' = fi
    /\ UNCHANGED <<feeds, env, source, disk, run, batch, loaded, work,
                   cfg_exists, writes, text, redo>>

\* After the loop over the feeds: save_state(state) rewrites the state file
\* (spec.md section 4.6, step 5).
Save ==
    /\ pc = "feed"
    /\ fi > Len(feeds)
    /\ disk' = save_state(state)
    /\ writes' = writes + 1
    /\ pc' = "done"
    /\ UNCHANGED <<feeds, env, source, state, run, fi, batch, ci, posted_dates,
                   loaded, work, log, cfg_exists, text, redo>>

Next == Start \/ SkipNoWebhook \/ Fetch \/ Deliver \/ Save


Spec == Init /\ [][Next]_vars

\* ------------------------------------------------- runs that end badly
\* Lines 89-91: feeds.json is missing; main() raises SystemExit before it loads
\* the state or touches the network.
NoConfig ==
    /\ pc \in Stopped
    /\ ~cfg_exists
    /\ run < MaxRuns
    /\ run' = run + 1
    /\ pc' = "aborted"
    /\ state' = NoState
    /\ loaded' = NoState
    /\ fi' = 1
    /\ batch' = <<>>
    /\ ci' = 1
    /\ posted_dates' = {}
    /\ work' = [n \in Names |-> EmptyWork]
    /\ log' = [n \in Names |-> <<>>]
    /\ writes' = 0
    /\ UNCHANGED <<feeds, env, source, disk, cfg_exists, text, redo>>

\* A state file that does not read as JSON.
Unreadable == [readable |-> FALSE, data |-> NoState]

\* Lines 25-27 raise (open or json.dump fails): the exception leaves main(), the
\* run ends with an error (spec.md section 7). open(..., "w") truncates the file
\* before anything is written, so the file is as it was or no longer reads.
SaveFails ==
    /\ pc = "feed"
    /\ fi > Len(feeds)
    /\ disk' \in {disk, Unreadable}
    /\ pc' = "failed"
    /\ UNCHANGED <<feeds, env, source, state, run, fi, batch, ci, posted_dates,
                   loaded, work, log, cfg_exists, writes, text, redo>>

\* An entry without a timestamp: coerce_dt gives it the time of the clock.
Undated(entry) ==
    entry.published = NoTime /\ entry.updated = NoTime /\ entry.created = NoTime

\* What the clock read in the candidate loop of a feed, as far as its
\* candidates w show it.
ClockSeen(w) == {c.dt : c \in {x \in Range(w.cands) : Undated(x.entry)}}

\* The process is killed between two steps of a run, before the state is saved
\* (a kill in the last run of a behaviour has no run after it and is left out).
\* redo keeps, for the run that follows, the identifiers the killed run had
\* posted successfully and what its clock read.
Crash ==
    /\ pc \in {"feed", "deliver"}
    /\ run < MaxRuns
    /\ pc' = "crashed"
    /\ redo' = [n \in Names |->
                   [ids |-> {ev.eid : ev \in {x \in Range(log[n]) : x.k = "entry" /\ x.ok}},
                    nows |-> ClockSeen(work[n])]]
    /\ UNCHANGED <<feeds, env, source, disk, state, run, fi, batch, ci,
                   posted_dates, loaded, work, log, cfg_exists, writes, text>>

\* The source feeds of a run that may end badly: feed "a" holds fewer than
\* MaxEntries entries, feed "b" one.
FaultWorlds ==
    {src \in [Names -> {s \in Contents(MaxEntries - 1) : Distinct(s)}] :
        src["b"] = <<E2>>}

\* Feed "a" takes one entry per run or is not capped; the secret of feed "b" is
\* set; the state file was written by earlier runs.
InitFaults ==
    /\ \E fa \in Filters, ma \in {1, DefaultMaxNew} :
           feeds = <<FeedConfig("a", fa, ma), FeedConfig("b", NoPattern, DefaultMaxNew)>>
    /\ env \in {e \in [{"HOOK_a", "HOOK_b"} -> {"", "https://hook"}] : e["HOOK_b"] # ""}
    /\ source \in FaultWorlds
    /\ disk = [readable |-> TRUE, data |-> OldState]
    /\ state = NoState
    /\ run = 0
    /\ pc = "idle"
    /\ fi = 1
    /\ batch = <<>>
    /\ ci = 1
    /\ posted_dates = {}
    /\ loaded = NoState
    /\ work = [n \in Names |-> EmptyWork]
    /\ log = [n \in Names |-> <<>>]
    /\ cfg_exists \in BOOLEAN
    /\ writes = 0
    /\ text = NoText
    /\ redo = NoRedo

NextFaults ==
    Start \/ SkipNoWebhook \/ Fetch \/ Deliver \/ Save \/ NoConfig \/ SaveFails

SpecFaults == InitFaults /\ [][NextFaults]_vars

\* Runs that may be killed: both secrets are set, feed "a" has no title filter
\* and takes one entry per run or is not capped.
InitCrash ==
    /\ \E ma \in {1, DefaultMaxNew} :
           feeds = <<FeedConfig("a", NoPattern, ma), FeedConfig("b", NoPattern, DefaultMaxNew)>>
    /\ env = [v \in {"HOOK_a", "HOOK_b"} |-> "https://hook"]
    /\ source \in FaultWorlds
    /\ disk = [readable |-> TRUE, data |-> OldState]
    /\ state = NoState
    /\ run = 0
    /\ pc = "idle"
    /\ fi = 1
    /\ batch = <<>>
    /\ ci = 1
    /\ posted_dates = {}
    /\ loaded = NoState
    /\ work = [n \in Names |-> EmptyWork]
    /\ log = [n \in Names |-> <<>>]
    /\ cfg_exists = TRUE
    /\ writes = 0
    /\ text = NoText
    /\ redo = NoRedo

NextCrash == Start \/ Fetch \/ Deliver \/ Save \/ Crash

SpecCrash == InitCrash /\ [][NextCrash]_vars

\* ------------------------------------------- runs in which nothing fails
\* Both secrets are set and feed "a" takes at least one entry per run.
InitDrain ==
    /\ \E fa \in Filters, ma \in 1..MaxCap :
           feeds = <<FeedConfig("a", fa, ma), FeedConfig("b", NoPattern, DefaultMaxNew)>>
    /\ env = [v \in {"HOOK_a", "HOOK_b"} |-> "https://hook"]
    /\ source \in Worlds
    /\ disk \in {Unreadable, [readable |-> TRUE, data |-> OldState]}
    /\ state = NoState
    /\ run = 0
    /\ pc = "idle"
    /\ fi = 1
    /\ batch = <<>>
    /\ ci = 1
    /\ posted_dates = {}
    /\ loaded = NoState
    /\ work = [n \in Names |-> EmptyWork]
    /\ log = [n \in Names |-> <<>>]
    /\ cfg_exists = TRUE
    /\ writes = 0
    /\ text = NoText
    /\ redo = NoRedo

\* A fetch that parses.
FetchOk ==
    LET n == Feed.name
    IN  Fetch /\ log'[n][Len(log'[n])].ok

\* An iteration of the delivery loop whose entry post succeeds.
DeliverOk ==
    LET n == Feed.name
    IN  Deliver /\ log'[n][Len(log'[n])].ok

NextDrain == Start \/ FetchOk \/ DeliverOk \/ Save

SpecDrain == InitDrain /\ [][NextDrain]_vars

\* ------------------------------------------------- clean_text on its own
\* The pieces a summary is made of: letters, whitespace, the characters of a
\* tag, an entity.
Pieces == {"a", " ", "\n", "<", ">", "&amp;"}

\* The summaries of at most n pieces.
RECURSIVE TextsUpTo(_)
TextsUpTo(n) ==
    IF n = 0 THEN {""}
    ELSE LET shorter == TextsUpTo(n - 1)
         IN  shorter \cup {t \o k : t \in shorter, k \in Pieces}

\* A summary and a limit are about to be handed to clean_text; main() is not
\* running.
InitText ==
    /\ \E str \in TextsUpTo(MaxText), lim \in 1..MaxLimit :
           text = [s |-> str, limit |-> lim, out |-> "", done |-> FALSE]
    /\ feeds = <<FeedConfig("a", NoPattern, DefaultMaxNew),
                 FeedConfig("b", NoPattern, DefaultMaxNew)>>
    /\ env = [v \in {"HOOK_a", "HOOK_b"} |-> "https://hook"]
    /\ source = [n \in Names |-> <<>>]
    /\ disk = Unreadable
    /\ state = NoState
    /\ run = 0
    /\ pc = "idle"
    /\ fi = 1
    /\ batch = <<>>
    /\ ci = 1
    /\ posted_dates = {}
    /\ loaded = NoState
    /\ work = [n \in Names |-> EmptyWork]
    /\ log = [n \in Names |-> <<>>]
    /\ cfg_exists = TRUE
    /\ writes = 0
    /\ redo = NoRedo

\* Line 147: summary = clean_text(summary, limit).
Clean ==
    /\ ~text.done
    /\ text' = [text EXCEPT !.out = clean_text(text.s, text.limit), !.done = TRUE]
    /\ UNCHANGED <<feeds, env, source, disk, state, run, pc, fi, batch, ci,
                   posted_dates, loaded, work, log, cfg_exists, writes, redo>>

NextText == Clean

SpecText == InitText /\ [][NextText]_vars

\* ------------------------------------------------- what the claims speak of
IsEntry(e) == e.k = "entry"
IsHeader(e) == e.k = "header"
IsOk(e) == e.ok

\* The entry posts and the header posts of feed n in this run, in order.
EntryEvents(n) == SelectSeq(log[n], IsEntry)
HeaderEvents(n) == SelectSeq(log[n], IsHeader)

\* The identifiers of the entries of feed n posted successfully, in post order.
OkIds(n) ==
    LET ok == SelectSeq(EntryEvents(n), IsOk)
    IN  [i \in 1..Len(ok) |-> ok[i].eid]

FeedIdx(n) == CHOOSE i \in 1..Len(feeds) : feeds[i].name = n
ConfigOf(n) == feeds[FeedIdx(n)]
FeedDone(n) == Finished(FeedIdx(n))

\* Every batch entry of feed n was attempted, in batch order.
AttemptedInOrder(n) ==
    LET ev == EntryEvents(n)
        b == work[n].batch
    IN  /\ Len(ev) = Len(b)
        /\ \A i \in 1..Len(b) : ev[i].eid = b[i].eid /\ ev[i].dt = b[i].dt

\* The last k elements of a sequence.
LastOf(seq, k) == SubSeq(seq, Max(Len(seq) - k, 0) + 1, Len(seq))

\* The candidates of feed n that the cap kept out of the batch.
Dropped(n) == {c \in Range(work[n].cands) : c \notin Range(work[n].batch)}

\* ---------------------------------------------------------------- claims

\* The successful posts of feed n after its i-th entry post.
LaterOk(n, i) ==
    Cardinality({j \in (i + 1)..Len(EntryEvents(n)) : EntryEvents(n)[j].ok})

\* Another (or the same) entry post of feed n with identifier eid succeeded.
PostedOk(n, eid) ==
    \E j \in 1..Len(EntryEvents(n)) : EntryEvents(n)[j].ok /\ EntryEvents(n)[j].eid = eid

\* C1 as stated: after the end-of-run persist, for every feed and every batch
\* entry, a successful post puts the identifier in the persisted seen set and a
\* failed post leaves it out.
C1_DedupAsStated ==
    pc = "done" =>
        \A n \in Names : \A i \in 1..Len(EntryEvents(n)) :
            LET ev == EntryEvents(n)[i]
            IN  /\ ev.ok => ev.eid \in Range(disk.data[n])
                /\ ~ev.ok => ev.eid \notin Range(disk.data[n])

\* C1, amended: after the end-of-run persist every batch entry has been
\* attempted, none had its identifier in the loaded seen set, a successful post
\* followed by fewer than SeenLimit successful posts of the feed has its
\* identifier in the persisted seen set, and a failed post has its identifier in
\* the persisted seen set only if a batch entry with the same identifier was
\* posted successfully.
C1_DedupAfterPersist ==
    pc = "done" =>
        \A n \in Names :
            /\ AttemptedInOrder(n)
            /\ \A i \in 1..Len(EntryEvents(n)) :
                 LET ev == EntryEvents(n)[i]
                 IN  /\ ev.eid \notin Range(loaded[n])
                     /\ (ev.ok /\ LaterOk(n, i) < SeenLimit)
                            => ev.eid \in Range(disk.data[n])
                     /\ (~ev.ok /\ ~PostedOk(n, ev.eid))
                            => ev.eid \notin Range(disk.data[n])

\* A persisted run in which feed "a" had three entry posts, one failed and one of
\* another identifier succeeded.
C1_Witness ==
    /\ pc = "done"
    /\ Len(EntryEvents("a")) = 3
    /\ \E i, j \in 1..3 :
         /\ ~EntryEvents("a")[i].ok
         /\ EntryEvents("a")[j].ok
         /\ EntryEvents("a")[i].eid # EntryEvents("a")[j].eid
         /\ EntryEvents("a")[i].eid \notin Range(disk.data["a"])
         /\ EntryEvents("a")[j].eid \in Range(disk.data["a"])

\* The identifier of every entry of feed n that passes the feed's title filter is
\* in the seen list ids.
AllAnnounced(n, ids) ==
    \A i \in 1..Len(source[n]) :
        should_keep(FilterTitle(source[n][i]), ConfigOf(n).title_filter_regex)
            => get_entry_id(source[n][i]) \in Range(ids)

NoNotification(n) == EntryEvents(n) = <<>> /\ HeaderEvents(n) = <<>>

\* C2 as stated: a run that follows a completed run, with the same configuration
\* and the same feed content, sends no entry notification and no day header.
C2_IdempotentAsStated ==
    run >= 2 => \A n \in Names : NoNotification(n)

\* C2, amended: a run that follows a completed run, with the same configuration
\* and feed content, sends no entry notification and no day header provided the
\* state the earlier run persisted holds the identifier of every filter-passing
\* entry of every feed whose webhook resolves.
C2_Idempotent ==
    (/\ run >= 2
     /\ pc # "done"
     /\ disk.readable
     /\ \A n \in Names : env[ConfigOf(n).webhook_secret] # "" => AllAnnounced(n, disk.data[n]))
        => \A n \in Names : NoNotification(n)

\* The second run is about to persist: feed "a" was fetched and parsed, holds two
\* entries or more that the first run announced, and nothing was sent.
C2_Witness ==
    /\ run = 2
    /\ pc = "feed"
    /\ fi > Len(feeds)
    /\ \A n \in Names : env[ConfigOf(n).webhook_secret] # "" /\ AllAnnounced(n, disk.data[n])
    /\ Len(source["a"]) >= 2
    /\ ConfigOf("a").title_filter_regex = NoPattern
    /\ log["a"] = <<Event("fetch", "", NoTime, TRUE)>>
    /\ \A n \in Names : NoNotification(n)

\* C3: whatever posts fail, every entry of the batch is attempted, in batch
\* order, and the feed's seen list is what is left of the loaded list followed by
\* exactly the identifiers of the successful posts, in post order.
C3_PartialFailure ==
    \A n \in Names :
        /\ FeedDone(n) => AttemptedInOrder(n)
        /\ run >= 1 =>
             \E k \in 0..Len(loaded[n]) :
                 state[n] = SubSeq(loaded[n], k + 1, Len(loaded[n])) \o OkIds(n)

\* Entry 2 of 3 failed; entries 1 and 3 were posted and are the two identifiers
\* added to the seen list.
C3_Witness ==
    /\ FeedDone("a")
    /\ Len(EntryEvents("a")) = 3
    /\ EntryEvents("a")[1].ok /\ ~EntryEvents("a")[2].ok /\ EntryEvents("a")[3].ok
    /\ state["a"] = loaded["a"] \o <<EntryEvents("a")[1].eid, EntryEvents("a")[3].eid>>

C5_CapAsStated ==
    \A n \in Names :
        FeedDone(n) =>
            LET c == work[n].cands
                b == work[n].batch
                m == ConfigOf(n).max_new_per_run
            IN  /\ AttemptedInOrder(n)
                /\ IF Len(c) > m THEN b = LastOf(c, m) ELSE b = c

\* C5, amended: with max_new >= 1 and more candidates than max_new, the batch
\* is the tail of the ascending sort, max_new long, none of the candidates left
\* out is more recent than one kept, and only the batch is attempted; with no
\* more candidates than max_new, or with max_new = 0 (no cap), every candidate
\* is attempted.
C5_Cap ==
    \A n \in Names :
        FeedDone(n) =>
            LET c == work[n].cands
                b == work[n].batch
                m == ConfigOf(n).max_new_per_run
            IN  /\ AttemptedInOrder(n)
                /\ \A i, j \in 1..Len(c) : i < j => c[i].dt <= c[j].dt
                /\ IF m >= 1 /\ Len(c) > m
                   THEN /\ Len(b) = m
                        /\ b = LastOf(c, m)
                        /\ \A d \in Dropped(n) : \A i \in 1..Len(b) : d.dt <= b[i].dt
                   ELSE b = c

\* Three candidates and max_new = 2: the two most recent were attempted.
C5_Witness ==
    /\ FeedDone("a")
    /\ Len(work["a"].cands) = 3
    /\ ConfigOf("a").max_new_per_run = 2
    /\ Len(EntryEvents("a")) = 2
    /\ work["a"].cands[1].dt < work["a"].cands[2].dt

\* The entry is a candidate of feed n in a run that loads the seen list ids.
CandidateWith(n, entry, ids) ==
    \A now \in Nows :
        LET c == SelectCandidates(source[n], Range(ids),
                                  ConfigOf(n).title_filter_regex, now)
        IN  \E j \in 1..Len(c) : c[j].entry = entry

\* C6 as stated: the identifier of a candidate that the cap kept out of the
\* batch is not in the seen set the run persists, and the entry is a candidate
\* of the next run.
C6_DroppedAsStated ==
    pc = "done" =>
        \A n \in Names : \A d \in Dropped(n) :
            /\ d.eid \notin Range(disk.data[n])
            /\ CandidateWith(n, d.entry, disk.data[n])

\* C6, amended: the identifier of a candidate that the cap kept out of the batch
\* is in the seen set the run persists only if a batch entry with the same
\* identifier was posted successfully; otherwise the entry is a candidate of
\* the next run.
C6_DroppedStayEligible ==
    pc = "done" =>
        \A n \in Names : \A d \in Dropped(n) :
            /\ d.eid \in Range(disk.data[n]) => PostedOk(n, d.eid)
            /\ ~PostedOk(n, d.eid) => CandidateWith(n, d.entry, disk.data[n])

\* A persisted run that dropped a candidate of feed "a" and posted another
\* identifier successfully.
C6_Witness ==
    /\ pc = "done"
    /\ \E d \in Dropped("a") :
         /\ ~PostedOk("a", d.eid)
         /\ d.eid \notin Range(disk.data["a"])
    /\ OkIds("a") # <<>>

\* The place of an entry in the source feed.
SrcPos(n, entry) == CHOOSE p \in 1..Len(source[n]) : source[n][p] = entry

\* C7: the entry posts of a feed follow the batch, whose resolved timestamps
\* ascend; entries of equal timestamp are posted in their source order.
C7_DeliveryOrder ==
    \A n \in Names :
        LET ev == EntryEvents(n)
            b == work[n].batch
        IN  /\ Len(ev) <= Len(b)
            /\ \A i \in 1..Len(ev) :
                 /\ ev[i].eid = get_entry_id(b[i].entry)
                 /\ ev[i].dt = coerce_dt(b[i].entry, b[i].dt)
            /\ \A i, j \in 1..Len(ev) :
                 i < j => /\ ev[i].dt <= ev[j].dt
                          /\ ev[i].dt = ev[j].dt
                                => SrcPos(n, b[i].entry) < SrcPos(n, b[j].entry)

\* Source order [T3, now, T1] with now = T1: the posts are the entry without a
\* time, then the T1 entry (a tie, in source order), then the T3 entry.
C7_Witness ==
    /\ FeedDone("a")
    /\ source["a"] = <<E1, E4, E2>>
    /\ Len(EntryEvents("a")) = 3
    /\ [i \in 1..3 |-> work["a"].batch[i].entry] = <<E4, E2, E1>>
    /\ EntryEvents("a")[1].dt = EntryEvents("a")[2].dt

\* C8: a feed gets as many header posts as its batch has distinct days; each
\* header comes right before the post of the first batch entry of its day, and
\* a day gets no second header, whatever the outcome of the first.
C8_DayGrouping ==
    \A n \in Names :
        LET L == log[n]
            b == work[n].batch
        IN  /\ FeedDone(n) =>
                 Len(HeaderEvents(n)) =
                     Cardinality({day_key(b[i].dt) : i \in 1..Len(b)})
            /\ \A p \in 1..Len(L) :
                 IsHeader(L[p]) =>
                     /\ p < Len(L)
                     /\ IsEntry(L[p + 1])
                     /\ L[p + 1].dt = L[p].dt
                     /\ \A q \in 1..(p - 1) :
                          (IsEntry(L[q]) \/ IsHeader(L[q]))
                              => day_key(L[q].dt) # day_key(L[p].dt)
            /\ \A p \in 1..Len(L) :
                 (/\ IsEntry(L[p])
                  /\ \A q \in 1..(p - 1) :
                       IsEntry(L[q]) => day_key(L[q].dt) # day_key(L[p].dt))
                     => /\ p > 1
                        /\ IsHeader(L[p - 1])
                        /\ L[p - 1].dt = L[p].dt

\* Three entries over two days: two header posts, the first of which failed,
\* and two entries on the day of the failed header.
C8_Witness ==
    /\ FeedDone("a")
    /\ Len(EntryEvents("a")) = 3
    /\ Len(HeaderEvents("a")) = 2
    /\ ~HeaderEvents("a")[1].ok
    /\ day_key(EntryEvents("a")[1].dt) = day_key(EntryEvents("a")[2].dt)
    /\ day_key(EntryEvents("a")[2].dt) # day_key(EntryEvents("a")[3].dt)

\* C9: a feed whose webhook secret is unset or empty has no fetch, no header
\* post and no entry post in the run, and its seen list stays the loaded one, in
\* memory and in what the run persists.
C9_MissingSecret ==
    \A n \in Names :
        env[ConfigOf(n).webhook_secret] = "" =>
            /\ log[n] = <<>>
            /\ run >= 1 => state[n] = loaded[n]
            /\ pc = "done" => disk.data[n] = loaded[n]

\* Feed "a", which has entries and a loaded seen list, was skipped for its
\* secret; feed "b" was posted to and the run persisted.
C9_Witness ==
    /\ pc = "done"
    /\ env["HOOK_a"] = ""
    /\ source["a"] # <<>>
    /\ loaded["a"] # <<>>
    /\ OkIds("b") # <<>>

\* The fetch of feed n reported a parse problem in this run.
FetchFailed(n) == \E p \in 1..Len(log[n]) : log[n][p].k = "fetch" /\ ~log[n][p].ok

\* C10: a feed whose fetch reports a parse problem gets no header post and no
\* entry post, and its seen list stays the loaded one, in memory and in what the
\* run persists.
C10_FetchError ==
    \A n \in Names :
        FetchFailed(n) =>
            /\ NoNotification(n)
            /\ state[n] = loaded[n]
            /\ pc = "done" => disk.data[n] = loaded[n]

\* The fetch of feed "a", which holds unseen entries, failed; feed "b" was
\* posted to and the run persisted.
C10_Witness ==
    /\ pc = "done"
    /\ FetchFailed("a")
    /\ Len(source["a"]) >= 2
    /\ ConfigOf("a").title_filter_regex = NoPattern
    /\ OkIds("b") # <<>>

\* ------------------------------------------------------------------ C11
\* A step of a run that no fault ends.
RunStep == SkipNoWebhook \/ Fetch \/ Deliver \/ Save

\* Feed n was processed in this run: not touched when its secret is missing,
\* fetched otherwise, and every batch entry attempted when the fetch parsed.
Processed(n) ==
    IF env[ConfigOf(n).webhook_secret] = ""
    THEN log[n] = <<>>
    ELSE /\ Len(log[n]) >= 1
         /\ log[n][1].k = "fetch"
         /\ log[n][1].ok => AttemptedInOrder(n)

\* The secret of feed n is missing, or a fetch or a post of feed n has failed in
\* this run.
Trouble(n) ==
    \/ env[ConfigOf(n).webhook_secret] = ""
    \/ \E p \in 1..Len(log[n]) : ~log[n][p].ok

\* A feed the loop has reached in this run was in trouble.
TroubleSoFar ==
    \E i \in 1..Len(feeds) :
        (i < fi \/ (i = fi /\ pc = "deliver")) /\ Trouble(feeds[i].name)

C12_HeaderFailureCosmetic ==
    \A n \in Names :
        LET ev == EntryEvents(n)
            b == work[n].batch
        IN  /\ \A p \in 1..Len(log[n]) :
                 (IsHeader(log[n][p]) /\ ~log[n][p].ok)
                     => /\ p < Len(log[n])
                        /\ IsEntry(log[n][p + 1])
                        /\ log[n][p + 1].dt = log[n][p].dt
            /\ Len(ev) <= Len(b)
            /\ \A i \in 1..Len(ev) : ev[i].eid = b[i].eid
            /\ FeedDone(n) => Len(ev) = Len(b)
            /\ state[n] = LastOf(loaded[n] \o OkIds(n), SeenLimit)

\* The first header of feed "a" failed; the entry that asked for it was posted
\* and committed, and a later entry of the batch was attempted as well.
C12_Witness ==
    /\ FeedDone("a")
    /\ Len(log["a"]) >= 4
    /\ IsHeader(log["a"][2]) /\ ~log["a"][2].ok
    /\ IsEntry(log["a"][3]) /\ log["a"][3].ok
    /\ log["a"][3].eid \in Range(state["a"])
    /\ Len(EntryEvents("a")) = Len(work["a"].batch)
    /\ Len(EntryEvents("a")) >= 2

\* ------------------------------------------------------------------ C13
\* C13: the state file is written once, at the end of the run. While main() is
\* in the loop over the feeds the run has not written the file, which still
\* reads as it was loaded; when the run is done every feed has been left
\* behind, the file has been written exactly once, and it holds the whole
\* in-memory mapping, under every key.
C13_PersistOnceAtEnd ==
    /\ pc \in {"feed", "deliver"} => writes = 0 /\ load_state(disk) = loaded
    /\ pc = "done" =>
          /\ writes = 1
          /\ fi > Len(feeds)
          /\ disk.readable
          /\ \A k \in Keys : disk.data[k] = state[k]

\* A run that posted entries of both feeds is done: the file holds the new
\* mapping, which differs from the loaded one.
C13_Witness ==
    /\ pc = "done"
    /\ writes = 1
    /\ OkIds("a") # <<>>
    /\ OkIds("b") # <<>>
    /\ disk.data = state
    /\ state["a"] # loaded["a"]
    /\ state["b"] # loaded["b"]

\* ------------------------------------------------------------------ C14
\* The fetch of feed n parsed in this run.
FetchParsed(n) == Len(log[n]) >= 1 /\ log[n][1].k = "fetch" /\ log[n][1].ok

CandidateIds(n) == {c.eid : c \in Range(work[n].cands)}
AttemptedIds(n) == {ev.eid : ev \in Range(EntryEvents(n))}

\* This run follows a run that was killed after it had posted entries of feed
\* n, it has fetched and parsed the same content, and its clock is not behind
\* the clock of the killed run.
RunsAfterKill(n) ==
    /\ pc \in {"feed", "deliver", "done", "failed"}
    /\ redo[n].ids # {}
    /\ FetchParsed(n)
    /\ \A t \in redo[n].nows, u \in ClockSeen(work[n]) : u >= t

\* The cap of feed n does not bind on the candidates of this run.
CapIdle(n) ==
    \/ ConfigOf(n).max_new_per_run = 0
    \/ Len(work[n].cands) <= ConfigOf(n).max_new_per_run

\* C14 as stated: when the process is killed before the persist, the state file
\* still reads as it was loaded, and in the next run the entries the killed run
\* had posted are candidates again and are posted again.
C14_AtLeastOnceAsStated ==
    /\ pc = "crashed" => load_state(disk) = loaded
    /\ \A n \in Names :
         RunsAfterKill(n) =>
             /\ redo[n].ids \subseteq CandidateIds(n)
             /\ (FeedDone(n) \/ pc = "failed") => redo[n].ids \subseteq AttemptedIds(n)

\* C14, amended: when the process is killed before the persist, the state file
\* has not been written and still reads as it was loaded; in the next run the
\* entries the killed run had posted are candidates again; they are posted
\* again in that run when the cap does not bind or when no candidate takes a
\* new clock reading as its timestamp.
C14_AtLeastOnce ==
    /\ pc = "crashed" => writes = 0 /\ load_state(disk) = loaded
    /\ \A n \in Names :
         RunsAfterKill(n) =>
             /\ redo[n].ids \subseteq CandidateIds(n)
             /\ ((FeedDone(n) \/ pc = "failed")
                    /\ (CapIdle(n) \/ ClockSeen(work[n]) \subseteq redo[n].nows))
                  => redo[n].ids \subseteq AttemptedIds(n)

\* A run was killed after it had posted an entry of feed "a"; the run after it
\* has posted that entry again and has saved the state with its identifier.
C14_Witness ==
    /\ pc = "done"
    /\ RunsAfterKill("a")
    /\ redo["a"].ids \subseteq Range(OkIds("a"))
    /\ redo["a"].ids \subseteq Range(disk.data["a"])
    /\ redo["a"].ids \cap Range(loaded["a"]) = {}

\* ------------------------------------------------------------------ C16
\* C16 as stated: a sanitized summary longer than the limit L comes back as its
\* first L - 1 characters followed by the marker, L characters in all; one of
\* at most L characters comes back unchanged.
C16_TruncationAsStated ==
    text.done =>
        LET t == Sanitize(text.s)
            L == text.limit
        IN  IF Len(t) > L
            THEN text.out = SubSeq(t, 1, L - 1) \o Ellipsis /\ Len(text.out) = L
            ELSE text.out = t

\* C16, amended: a sanitized summary of at most L characters comes back
\* unchanged. A longer one comes back as a prefix of it that ends in no
\* whitespace, followed by exactly one marker: its first L - 1 characters, L
\* characters in all, unless the character at position L - 1 is a space, which
\* is then dropped, leaving L - 1 characters in all.
C16_Truncation ==
    text.done =>
        LET t == Sanitize(text.s)
            L == text.limit
            body == SubSeq(text.out, 1, Len(text.out) - 1)
        IN  IF Len(t) <= L
            THEN text.out = t
            ELSE /\ text.out # ""
                 /\ Char(text.out, Len(text.out)) = Ellipsis
                 /\ body = SubSeq(t, 1, Len(body))
                 /\ \A i \in 1..Len(body) : Char(body, i) # Ellipsis
                 /\ body = "" \/ ~IsSpace(Char(body, Len(body)))
                 /\ Len(text.out) = (IF L >= 2 /\ Char(t, L - 1) = " " THEN L - 1 ELSE L)

\* A summary that sanitizing changed and that was cut where a space stood: the
\* result is one character short of the limit.
C16_Witness ==
    /\ text.done
    /\ Sanitize(text.s) # text.s
    /\ Len(Sanitize(text.s)) > text.limit
    /\ Len(text.out) = text.limit - 1
    /\ Char(text.out, Len(text.out)) = Ellipsis

\* ------------------------------------------------------------------ C15
\* Lines 144-150: the body of the i-th entry post of feed n in this run.
EntryMessage(n, i) ==
    LET c == work[n].batch[i]
    IN  post_to_discord(c.entry.title, c.entry.link,
                        clean_text(Summary(c.entry), SummaryLimit),
                        DefaultColor, c.dt, n)

\* Lines 137-139: the body of the header post that is event p of feed n.
HeaderMessage(n, p) == post_header_for_date(log[n][p].dt, n)

\* C15: every entry message has exactly the keys embeds and allowed_mentions,
\* embeds holding one embed with title, url, description, color, timestamp and
\* footer.text, and allowed_mentions being {parse: []}; every header message
\* has exactly the key content, a string.
C15_WireContract ==
    \A n \in Names :
        /\ \A i \in 1..Len(EntryEvents(n)) :
             LET m == EntryMessage(n, i)
             IN  /\ Len(m.embeds) = 1
                 /\ DOMAIN m.embeds[1] =
                        {"title", "url", "description", "color", "timestamp", "footer"}
                 /\ DOMAIN m.embeds[1].footer = {"text"}
                 /\ DOMAIN m = {"embeds", "allowed_mentions"}
                 /\ m.allowed_mentions = [parse |-> <<>>]
        /\ \A p \in 1..Len(log[n]) :
             IsHeader(log[n][p]) =>
                 /\ DOMAIN HeaderMessage(n, p) = {"content"}
                 /\ Len(HeaderMessage(n, p).content) > 0

\* ------------------------------------------------------------------ C17
\* The identifier the claim gives an entry: its id, else its guid, else link
\* and title joined by "::".
ClaimedId(e) ==
    IF e.id # "" THEN e.id
    ELSE IF e.guid # "" THEN e.guid
    ELSE e.link \o "::" \o e.title

\* The title of e passes the title filter of feed n: there is no pattern, or
\* the pattern does not compile, or it matches the title ("Update" for an
\* entry without title).
PassesFilter(n, e) ==
    LET pat == ConfigOf(n).title_filter_regex
    IN  \/ ~pat.present
        \/ ~pat.valid
        \/ (IF e.title = "" THEN "Update" ELSE e.title) \in pat.matches

Count(seq, x) == Cardinality({i \in 1..Len(seq) : seq[i] = x})

\* The identifiers of the entry posts of feed n in this run, in order.
PostedIds(n) == [i \in 1..Len(EntryEvents(n)) |-> EntryEvents(n)[i].eid]

\* The identifiers of the source entries of feed n, in source order.
SourceIds(n) == [i \in 1..Len(source[n]) |-> ClaimedId(source[n][i])]

\* C18 as stated: within a run no identifier is posted more than once and none
\* is appended to the seen list more than once, whatever the source holds.
C18_NoDuplicateAsStated ==
    \A n \in Names : \A x \in Range(PostedIds(n)) :
        /\ Count(PostedIds(n), x) = 1
        /\ Count(state[n], x) <= 1

\* C18, amended: within a run no source entry is posted more than once; an
\* identifier is posted at most as often as the source holds entries with it,
\* and it is appended to the seen list once per successful post, so at most
\* that often; when the source entries have distinct identifiers no
\* identifier is posted or appended more than once.
C18_NoDuplicate ==
    \A n \in Names :
        LET b == work[n].batch
        IN  /\ \A i, j \in 1..Len(b) : i # j => b[i].entry # b[j].entry
            /\ Len(EntryEvents(n)) <= Len(b)
            /\ \A i \in 1..Len(EntryEvents(n)) : EntryEvents(n)[i].eid = b[i].eid
            /\ \A x \in Range(PostedIds(n)) :
                 /\ Count(PostedIds(n), x) <= Count(SourceIds(n), x)
                 /\ Count(state[n], x) = Count(OkIds(n), x)
                 /\ Count(SourceIds(n), x) = 1 =>
                        Count(PostedIds(n), x) = 1 /\ Count(state[n], x) <= 1

\* Feed "a" holds two entries with the identifier "e1"; both were posted and
\* the identifier stands twice in the seen list.
C18_Witness ==
    /\ Count(SourceIds("a"), "e1") = 2
    /\ Count(PostedIds("a"), "e1") = 2
    /\ Count(state["a"], "e1") = 2

\* ------------------------------------------------------------------ C19
\* The source entries of feed n that pass its filter, and their number.
Passing(n) == {e \in Range(source[n]) : PassesFilter(n, e)}
PassingCount(n) == Cardinality(Passing(n))

\* The passing entries of feed n have distinct identifiers.
DistinctIds(n) == \A e, f \in Passing(n) : e # f => ClaimedId(e) # ClaimedId(f)

\* The passing entries of feed n whose identifier is in the list ids.
AnnouncedIn(n, ids) == {e \in Passing(n) : ClaimedId(e) \in Range(ids)}

\* C19: with fixed content, N passing entries of distinct identifiers, a cap
\* max_new of at least 1 and every fetch and post succeeding, the r-th
\* completed run leaves min(N, r * max_new) of the entries in the persisted
\* seen list, each exactly once; so after the first run with r * max_new >= N
\* all of them are there; a run started when all were there sends nothing; and
\* in every run the posted entries are not older than the candidates left for
\* later runs.
C19_EventualDrain ==
    \A n \in Names :
        LET N == PassingCount(n)
            m == ConfigOf(n).max_new_per_run
        IN  (DistinctIds(n) /\ m >= 1) =>
                /\ pc = "done" =>
                      /\ Cardinality(AnnouncedIn(n, disk.data[n])) = Min(N, run * m)
                      /\ \A e \in AnnouncedIn(n, disk.data[n]) :
                             Count(disk.data[n], ClaimedId(e)) = 1
                      /\ run * m >= N => AnnouncedIn(n, disk.data[n]) = Passing(n)
                /\ (run >= 1 /\ (run - 1) * m >= N) => NoNotification(n)
                /\ \A d \in Dropped(n), c \in Range(work[n].batch) : d.dt <= c.dt

\* Feed "a" has three passing entries and takes two per run: the second run has
\* posted the third entry and all three are in the persisted seen list.
C19_Witness ==
    /\ pc = "done"
    /\ run = 2
    /\ DistinctIds("a")
    /\ PassingCount("a") = 3
    /\ ConfigOf("a").max_new_per_run = 2
    /\ Len(EntryEvents("a")) = 1
    /\ AnnouncedIn("a", disk.data["a"]) = Passing("a")

\* ------------------------------------------------------------------ C20
\* C20: a step changes the seen list under a key only when it loads the state
\* at the start of a run or when it is an iteration of the delivery loop of
\* the feed of that name, so while one feed is processed the lists of all
\* others stay as they are; the list under a key that is no configured feed
\* stays as loaded throughout the run, and the state write puts it in the file
\* as it was loaded.
C20_FeedIsolation ==
    [][
        /\ \A k \in Keys :
             state'[k] # state[k] =>
                 \/ pc \in Stopped
                 \/ pc = "deliver" /\ k = Feed.name
        /\ \A u \in Keys \ Names :
             /\ pc' \in {"feed", "deliver", "done"} => state'[u] = loaded'[u]
             /\ (pc = "feed" /\ pc' = "done") => disk'.data[u] = loaded[u]
             /\ (pc = "feed" /\ pc' = "done" /\ disk.readable) => disk'.data[u] = disk.data[u]
    ]_vars

\* The second run has posted entries of both feeds and has written the state:
\* the list of the feed that is no longer configured is in the file as it was
\* before the first run.
C20_Witness ==
    /\ pc = "done"
    /\ run = 2
    /\ OkIds("a") # <<>>
    /\ OkIds("b") # <<>>
    /\ state["a"] # loaded["a"]
    /\ state["b"] # loaded["b"]
    /\ disk.data["z"] = OldState["z"]
    /\ disk.data["z"] # <<>>
====
